---- MODULE Spec2Model ----
(***************************************************************************)
(* The ICU build pipelines of build_icu.py (configure/make under Cygwin,   *)
(* "msys") and build_icu_native.py (MSBuild, "native"): the step loop of   *)
(* build(), the steps' effects on the workspace, artifact location,        *)
(* packaging and verification.                                             *)
(*                                                                         *)
(* The workspace is a map from directory paths to directories; a directory *)
(* holds files, each a name (base, extension) and a body.  What the        *)
(* network, the archive and the external toolchain deliver is drawn from   *)
(* small sets; what the Python code does with it is translated from the    *)
(* source.                                                                 *)
(***************************************************************************)
EXTENDS Integers, Sequences, FiniteSets, TLC

VARIABLES
    config,        \* BuildConfig of this invocation (never changes)
    fs,            \* workspace and build directories: path -> directory
    src,           \* the source tree at source_dir: solution, props file, prepared
    zip,           \* workspace/icu-source.zip
    manifest,      \* BUILD_INFO.txt in the artifact directory
    archive,       \* workspace/<artifact_name>.zip
    phase,         \* "idle" | "running" | "done": where main() is
    pc,            \* index in steps of the step build() invokes next
    result,        \* "none" | "success" | "failure" | "crash" of build()
    failed_step,   \* the step named by "Build failed at step: ..."
    invoked,       \* the steps build() has invoked in this run, with what each returned
    last,          \* what the most recent step did (calls, diagnostics, inputs)
    runs,          \* number of pipeline runs started on this workspace
    exit_code,     \* process exit code of the latest run (-1: not exited)
    fetch_failed,  \* a download step has failed because the fetch failed
    prev_art       \* the artifact directory's files before the latest package step

vars == <<config, fs, src, zip, manifest, archive, phase, pc, result,
          failed_step, invoked, last, runs, exit_code, fetch_failed, prev_art>>

(* Number of times the operator runs the pipeline on one workspace. *)
MaxRuns == 2

-----------------------------------------------------------------------------
(* Files and directories *)

File(base, ext, body) == [name |-> [base |-> base, ext |-> ext], body |-> body]

NoDir == [exists |-> FALSE, files |-> {}]

EmptyDir == [exists |-> TRUE, files |-> {}]

DirOf(files) == [exists |-> TRUE, files |-> files]

(* Candidate output directories of the MSBuild strategy, in list order. *)
possible_paths ==
    << "icu4c/bin64", "icu4c/lib64", "icu4c/bin", "icu4c/lib",
       "top/lib64", "top/bin64" >>

(* Directories searched for .dat files (the same four in both strategies). *)
data_paths ==
    << "source/data/out", "source/data/out/tmp", "icu4c/data/out", "icu4c/data" >>

(* Header directories of the source tree copied by the MSBuild strategy. *)
header_paths ==
    << "source/common/unicode", "source/i18n/unicode", "source/io/unicode" >>

(* D:/icu-build/<arch>-<build_type> and its subdirectories. *)
BuildDirPaths ==
    { "build/lib", "build/include", "build/include/unicode", "build/bin" }

(* workspace/<artifact_name> and its subdirectories. *)
ArtifactPaths ==
    { "art", "art/lib", "art/include", "art/include/unicode", "art/bin", "art/data" }

Range(s) == { s[i] : i \in DOMAIN s }

Paths ==
    {"source"} \cup Range(possible_paths) \cup Range(data_paths)
        \cup Range(header_paths) \cup BuildDirPaths \cup ArtifactPaths

(* Path.exists() *)
PathExists(f, p) == f[p].exists

(* Path.glob("*.<ext>"): the files of a directory with that extension; nothing *)
(* for a path that is no directory.                                         *)
Glob(f, p, ext) == { x \in f[p].files : x.name.ext = ext }

-----------------------------------------------------------------------------
(* BuildConfig *)

Configs ==
    { [strategy |-> "msys",   embed_data |-> TRUE,  arch |-> "x64", build_type |-> "Release"],
      [strategy |-> "msys",   embed_data |-> FALSE, arch |-> "x64", build_type |-> "Release"],
      [strategy |-> "native", embed_data |-> FALSE, arch |-> "x64", build_type |-> "Release"],
      [strategy |-> "native", embed_data |-> FALSE, arch |-> "x86", build_type |-> "Debug"] }

lib_prefix(c) == IF c.embed_data THEN "s" ELSE ""

StepsMsys ==
    << "Download ICU source", "Prepare source", "Configure build", "Build ICU",
       "Install ICU", "Package artifacts", "Verify build" >>

StepsNative ==
    << "Download ICU source", "Verify Visual Studio solution",
       "Update Visual Studio toolset", "Build ICU with MSBuild",
       "Package artifacts", "Verify build" >>

Steps(c) == IF c.strategy = "msys" THEN StepsMsys ELSE StepsNative

-----------------------------------------------------------------------------
(* What the source archive can hold *)

NoHeaders == << NoDir, NoDir, NoDir >>

TreeVariants ==
    { \* the released tree: solution, v141 toolset, headers (utypes.h twice)
      [top_ok |-> TRUE, sln |-> TRUE, props |-> "v141",
       hdr |-> << DirOf({File("utypes", "h", 1)}), DirOf({File("ucol", "h", 1)}),
                  DirOf({File("utypes", "h", 2)}) >>],
      \* a tree without headers and without the props file
      [top_ok |-> TRUE, sln |-> TRUE, props |-> "absent",
       hdr |-> << EmptyDir, NoDir, NoDir >>],
      \* a tree without the solution
      [top_ok |-> TRUE, sln |-> FALSE, props |-> "v143",
       hdr |-> << DirOf({File("utypes", "h", 1)}), NoDir, NoDir >>],
      \* an archive whose top-level directory is not icu-release-<tag>
      [top_ok |-> FALSE, sln |-> TRUE, props |-> "v141",
       hdr |-> << DirOf({File("utypes", "h", 1)}), NoDir, NoDir >>] }

NoTree == [top_ok |-> FALSE, sln |-> FALSE, props |-> "absent", hdr |-> NoHeaders]

NoZip == [state |-> "absent", tree |-> NoTree]

NoSrc == [sln |-> FALSE, props |-> "absent", prepared |-> FALSE]

-----------------------------------------------------------------------------
(* download_icu_source (identical in both strategies) *)

(* The existence check lost: the source is fetched and extracted each time. *)
SourceNeverAvailable(f) == FALSE

(* source_dir.exists() *)
SourceAvailable(f) == PathExists(f, "source")

(* requests.get + raise_for_status + the chunked write of icu-source.zip.   *)
(* net = "refused": the request fails before the file is opened;            *)
(* net = "midway": the stream breaks after open(source_zip, 'wb').          *)
FetchZip(net, tree) ==
    CASE net = "ok"      -> [state |-> "complete", tree |-> tree]
      [] net = "midway"  -> [state |-> "partial",  tree |-> NoTree]
      [] OTHER           -> NoZip

(* zipfile.ZipFile(source_zip).extractall(workspace): a truncated archive   *)
(* is no zip file (BadZipFile); extract = "fail" is an I/O fault.           *)
ExtractOk(z, extract) == z.state = "complete" /\ extract = "ok"

ExtractTree(f, t) ==
    IF t.top_ok
    THEN [p \in Paths |->
            IF p = "source" THEN EmptyDir
            ELSE IF \E i \in 1..3 : header_paths[i] = p
                 THEN t.hdr[CHOOSE i \in 1..3 : header_paths[i] = p]
                 ELSE f[p]]
    ELSE f

download_icu_source(f, s, z, net, extract, tree) ==
    IF SourceAvailable(f)
    THEN [ret |-> "true", fault |-> FALSE, net_calls |-> 0, fs |-> f, src |-> s, zip |-> z,
          fetch_failed |-> FALSE, diag |-> "already available"]
    ELSE LET fetch == z.state = "absent"
             z1 == IF fetch THEN FetchZip(net, tree) ELSE z
         IN  IF fetch /\ net # "ok"
             THEN [ret |-> "false", fault |-> TRUE, net_calls |-> 1, fs |-> f, src |-> s,
                   zip |-> z1, fetch_failed |-> TRUE,
                   diag |-> "download failed"]
             ELSE IF ExtractOk(z1, extract)
                  THEN [ret |-> "true", fault |-> FALSE,
                        net_calls |-> IF fetch THEN 1 ELSE 0,
                        fs |-> ExtractTree(f, z1.tree),
                        src |-> IF z1.tree.top_ok
                                THEN [sln |-> z1.tree.sln, props |-> z1.tree.props,
                                      prepared |-> FALSE]
                                ELSE s,
                        zip |-> z1, fetch_failed |-> FALSE, diag |-> "extracted"]
                  ELSE [ret |-> "false", fault |-> TRUE,
                        net_calls |-> IF fetch THEN 1 ELSE 0,
                        fs |-> f, src |-> s, zip |-> z1, fetch_failed |-> FALSE,
                        diag |-> "extract failed"]

-----------------------------------------------------------------------------
(* The external toolchain (bash.exe under Cygwin, msbuild): a black box.     *)
(* tool = "ok": exit status 0; "nonzero": another exit status;              *)
(* "raise": subprocess.run raises (the program cannot be started).          *)

ToolOutcomes == {"ok", "nonzero", "raise"}

(* try: result = subprocess.run(cmd); returncode != 0 -> False; except -> False *)
RunTool(tool) ==
    [ret |-> IF tool = "ok" THEN "true" ELSE "false", fault |-> tool = "raise"]

(* What `make` leaves in the data directories. *)
DataVariants ==
    { << NoDir, NoDir, NoDir, NoDir >>,
      << DirOf({File("icudt77l", "dat", 1)}), NoDir, NoDir, NoDir >>,
      << DirOf({File("icudt77l", "dat", 1)}), DirOf({File("icudt77l", "dat", 2)}),
         NoDir, NoDir >> }

(* What `make install` leaves in build_dir: lib, include, include/unicode, bin. *)
InstallVariants ==
    { [lib |-> DirOf({File("icuuc", "lib", 1), File("sicudt", "lib", 1)}),
       include |-> EmptyDir, unicode |-> DirOf({File("utypes", "h", 1)}),
       bin |-> DirOf({File("icupkg", "exe", 1)})],
      [lib |-> DirOf({File("icuuc", "lib", 2)}),
       include |-> EmptyDir, unicode |-> EmptyDir, bin |-> NoDir],
      [lib |-> DirOf({File("icuuc", "lib", 1)}),
       include |-> NoDir, unicode |-> NoDir, bin |-> NoDir],
      [lib |-> EmptyDir, include |-> NoDir, unicode |-> NoDir, bin |-> NoDir],
      [lib |-> NoDir, include |-> NoDir, unicode |-> NoDir, bin |-> NoDir] }

(* What msbuild leaves in the six candidate directories. *)
CandVariants ==
    { << NoDir, NoDir, NoDir, NoDir, NoDir, NoDir >>,
      << DirOf({File("icupkg", "exe", 1)}), DirOf({File("icuuc", "lib", 1)}),
         NoDir, NoDir, NoDir, NoDir >>,
      << EmptyDir, DirOf({File("icuuc", "lib", 1)}), NoDir,
         DirOf({File("icuuc", "lib", 2), File("icuin", "lib", 1)}), NoDir, NoDir >>,
      << DirOf({File("icupkg", "exe", 2)}), EmptyDir, NoDir, NoDir, NoDir, NoDir >> }

IndexOf(seq, p) == CHOOSE i \in DOMAIN seq : seq[i] = p

WriteDirs(f, paths, dirs) ==
    [p \in Paths |-> IF p \in Range(paths) THEN dirs[IndexOf(paths, p)] ELSE f[p]]

WriteBuildDir(f, v) ==
    [p \in Paths |->
        CASE p = "build/lib"             -> v.lib
          [] p = "build/include"         -> v.include
          [] p = "build/include/unicode" -> v.unicode
          [] p = "build/bin"             -> v.bin
          [] OTHER                       -> f[p]]

(* prepare_source: runs dos2unix/chmod under Cygwin bash, whatever the tree's state. *)
prepare_source(f, s, tool) ==
    LET r == RunTool(tool)
    IN  [ret |-> r.ret, fault |-> r.fault, tool_calls |-> 1,
         src |-> IF r.ret = "true" /\ SourceAvailable(f)
                 THEN [s EXCEPT !.prepared = TRUE] ELSE s]

(* configure_build: runConfigureICU under Cygwin bash. *)
configure_build(tool) ==
    LET r == RunTool(tool)
    IN  [ret |-> r.ret, fault |-> r.fault, tool_calls |-> 1]

(* build_icu: make. *)
build_icu(f, tool, data) ==
    LET r == RunTool(tool)
    IN  [ret |-> r.ret, fault |-> r.fault, tool_calls |-> 1,
         fs |-> IF r.ret = "true" THEN WriteDirs(f, data_paths, data) ELSE f]

(* install_icu: make install. *)
install_icu(f, tool, inst) ==
    LET r == RunTool(tool)
    IN  [ret |-> r.ret, fault |-> r.fault, tool_calls |-> 1,
         fs |-> IF r.ret = "true" THEN WriteBuildDir(f, inst) ELSE f]

(* verify_visual_studio_solution: solution_path.exists() *)
verify_visual_studio_solution(f, s) ==
    [ret |-> IF SourceAvailable(f) /\ s.sln THEN "true" ELSE "false"]

(* update_visual_studio_toolset: rewrites v141/v140 to v143.  A missing props *)
(* file, and an error while reading or writing it, are what the step itself  *)
(* declares "not critical": a warning, and the step returns True.           *)
update_visual_studio_toolset(f, s, io) ==
    IF ~(SourceAvailable(f) /\ s.props # "absent")
    THEN [ret |-> "true", fault |-> FALSE, warnings |-> {"props_missing"}, src |-> s]
    ELSE IF io = "raise"
    THEN [ret |-> "true", fault |-> FALSE, warnings |-> {"toolset_failed"}, src |-> s]
    ELSE [ret |-> "true", fault |-> FALSE, warnings |-> {},
          src |-> IF s.props \in {"v141", "v140"} THEN [s EXCEPT !.props = "v143"] ELSE s]

(* build_icu_with_msbuild: the solution build, then the MakeData target. *)
build_icu_with_msbuild(f, tool1, tool2, cand, data) ==
    LET r1 == RunTool(tool1)
        f1 == IF r1.ret = "true" THEN WriteDirs(f, possible_paths, cand) ELSE f
        r2 == RunTool(tool2)
    IN  IF r1.ret # "true"
        THEN [ret |-> "false", fault |-> r1.fault, tool_calls |-> 1, fs |-> f1]
        ELSE [ret |-> r2.ret, fault |-> r2.fault, tool_calls |-> 2,
              fs |-> IF r2.ret = "true" THEN WriteDirs(f1, data_paths, data) ELSE f1]

-----------------------------------------------------------------------------
(* locate_build_artifacts (MSBuild strategy) *)

(* list(...): the order in which a directory yields its entries is the      *)
(* operating system's; it is fixed for a given set of entries.              *)
RECURSIVE SeqOfSet(_)
SeqOfSet(S) ==
    IF S = {} THEN << >>
    ELSE LET x == CHOOSE y \in S : TRUE IN << x >> \o SeqOfSet(S \ {x})

(* The existence check replaced by a default: a path that yields nothing is *)
(* taken to hold the library under its usual name.                          *)
CollectFromWithDefault(f, p, ext) ==
    IF PathExists(f, p) /\ Glob(f, p, ext) # {}
    THEN SeqOfSet({ [path |-> p, name |-> x.name] : x \in Glob(f, p, ext) })
    ELSE << [path |-> p, name |-> [base |-> "icuuc", ext |-> ext]] >>

(* `if path.exists(): files = list(path.glob("*.ext")); if files: extend(files)` *)
CollectFrom(f, p, ext) ==
    IF PathExists(f, p)
    THEN SeqOfSet({ [path |-> p, name |-> x.name] : x \in Glob(f, p, ext) })
    ELSE << >>

(* The traversal with a name already taken from an earlier path left out. *)
RECURSIVE CollectAllDistinct(_, _, _, _)
CollectAllDistinct(f, paths, ext, i) ==
    IF i > Len(paths) THEN << >>
    ELSE LET here == CollectFrom(f, paths[i], ext)
             rest == CollectAllDistinct(f, paths, ext, i + 1)
         IN  here \o SelectSeq(rest, LAMBDA e : \A k \in DOMAIN here : here[k].name # e.name)

(* `for path in paths:` from the i-th path on, in list order. *)
RECURSIVE CollectAll(_, _, _, _)
CollectAll(f, paths, ext, i) ==
    IF i > Len(paths) THEN << >>
    ELSE CollectFrom(f, paths[i], ext) \o CollectAll(f, paths, ext, i + 1)

locate_build_artifacts(f) ==
    [lib_files |-> CollectAll(f, possible_paths, "lib", 1),
     exe_files |-> CollectAll(f, possible_paths, "exe", 1),
     dat_files |-> CollectAll(f, data_paths, "dat", 1)]

-----------------------------------------------------------------------------
(* package_artifacts *)

ReadBody(f, p, name) == (CHOOSE x \in f[p].files : x.name = name).body

(* shutil.copy2(file, directory): the file under its own name, replacing a  *)
(* file of that name.                                                      *)
Copy2(f, e, dst) ==
    [f EXCEPT ![dst] =
        [exists |-> TRUE,
         files |-> { x \in f[dst].files : x.name # e.name }
                     \cup { [name |-> e.name, body |-> ReadBody(f, e.path, e.name)] }]]

(* `for file in entries: shutil.copy2(file, dst)` *)
RECURSIVE CopyAll(_, _, _)
CopyAll(f, entries, dst) ==
    IF entries = << >> THEN f
    ELSE CopyAll(Copy2(f, Head(entries), dst), Tail(entries), dst)

(* The cleaning lost: the artifact directory is reused as it is. *)
KeepArtifactDir(f) == f

(* `if artifact_dir.exists(): shutil.rmtree(artifact_dir)` *)
CleanArtifactDir(f) ==
    IF PathExists(f, "art")
    THEN [p \in Paths |-> IF p \in ArtifactPaths THEN NoDir ELSE f[p]]
    ELSE f

(* Path.mkdir() of each of dirs: an empty directory where there was none    *)
(* (the code cleans first, so that mkdir() never meets an existing one).   *)
MakeDirs(f, dirs) ==
    [p \in Paths |-> IF p \in dirs /\ ~PathExists(f, p) THEN EmptyDir ELSE f[p]]

NoManifest ==
    [exists |-> FALSE, arch |-> "none", build_type |-> "none", data_packaging |-> "none"]

(* The manifest written from the defaults instead of the configuration. *)
BuildInfoOfDefaults(c) ==
    [exists |-> TRUE, arch |-> "x64", build_type |-> "Release",
     data_packaging |->
        IF c.strategy = "native" THEN "Built-in DLL + .dat files"
        ELSE IF c.embed_data THEN "Static (embedded)" ELSE "Separate (.dat files)"]

(* The BUILD_INFO.txt text: the fields it records. *)
BuildInfo(c) ==
    [exists |-> TRUE, arch |-> c.arch, build_type |-> c.build_type,
     data_packaging |->
        IF c.strategy = "native" THEN "Built-in DLL + .dat files"
        ELSE IF c.embed_data THEN "Static (embedded)" ELSE "Separate (.dat files)"]

(* file_path.relative_to(artifact_dir), for the directory of a file. *)
RelativeTo(p) ==
    CASE p = "art"                 -> ""
      [] p = "art/lib"             -> "lib"
      [] p = "art/include"         -> "include"
      [] p = "art/include/unicode" -> "include/unicode"
      [] p = "art/bin"             -> "bin"
      [] p = "art/data"            -> "data"

(* artifact_dir.rglob("*") restricted to is_file(), other than BUILD_INFO.txt. *)
ArtifactFiles(f) ==
    UNION { { [path |-> RelativeTo(p), name |-> x.name, body |-> x.body] : x \in f[p].files }
            : p \in ArtifactPaths }

NoArchive == [exists |-> FALSE, complete |-> FALSE, files |-> {}, manifest |-> NoManifest]

(* The archive not written at all. *)
WriteArchiveSkipped(f, m) ==
    [exists |-> FALSE, complete |-> FALSE, files |-> {}, manifest |-> NoManifest]

(* zipfile.ZipFile(zip_path, 'w'): the archive is written anew. *)
WriteArchive(f, m) ==
    [exists |-> TRUE, complete |-> TRUE, files |-> ArtifactFiles(f), manifest |-> m]

(* The archive file as left when writing it fails: created, not finished.  *)
BrokenArchive == [exists |-> TRUE, complete |-> FALSE, files |-> {}, manifest |-> NoManifest]

(* Where a fault (an OSError of a copy, a stat or a write) can strike.      *)
PackageFaults == {"none", "copy", "zip"}

(* The refusal lost: an empty library list is packaged like any other. *)
NoLibrariesAccepted(artifacts) == FALSE

(* `if not artifacts['lib_files']: return False` *)
NoLibraries(artifacts) == artifacts.lib_files = << >>

(* build_icu_native.py: package_artifacts *)
package_artifacts_native(f, m, a, c, io) ==
    LET artifacts == locate_build_artifacts(f)
        f1 == MakeDirs(CleanArtifactDir(f),
                       {"art", "art/lib", "art/include", "art/bin", "art/data"})
        f2 == CopyAll(f1, artifacts.lib_files, "art/lib")
        f3 == MakeDirs(f2, {"art/include/unicode"})
        f4 == CopyAll(f3, CollectAll(f3, header_paths, "h", 1), "art/include/unicode")
        f5 == CopyAll(f4, artifacts.exe_files, "art/bin")
        f6 == CopyAll(f5, artifacts.dat_files, "art/data")
    IN  IF NoLibraries(artifacts)
        THEN [ret |-> "false", fault |-> FALSE, diag |-> "libraries", warnings |-> {},
              fs |-> f, manifest |-> m, archive |-> a]
        ELSE IF io = "copy"
        THEN [ret |-> "raise", fault |-> TRUE, diag |-> "none", warnings |-> {},
              fs |-> f1, manifest |-> NoManifest, archive |-> a]
        ELSE IF io = "zip"
        THEN [ret |-> "raise", fault |-> TRUE, diag |-> "none",
              warnings |-> IF artifacts.dat_files = << >> THEN {"data"} ELSE {},
              fs |-> f6, manifest |-> BuildInfo(c), archive |-> BrokenArchive]
        ELSE [ret |-> "true", fault |-> FALSE, diag |-> "none",
              warnings |-> IF artifacts.dat_files = << >> THEN {"data"} ELSE {},
              fs |-> f6, manifest |-> BuildInfo(c),
              archive |-> WriteArchive(f6, BuildInfo(c))]

(* shutil.copytree(include_src, artifact_dir / "include", dirs_exist_ok=True) *)
CopyIncludeTree(f) ==
    IF PathExists(f, "build/include")
    THEN [f EXCEPT !["art/include"] =
                     [exists |-> TRUE, files |-> f["build/include"].files],
                   !["art/include/unicode"] = f["build/include/unicode"]]
    ELSE f

(* build_icu.py: package_artifacts *)
package_artifacts_msys(f, m, a, c, io) ==
    LET f1 == MakeDirs(CleanArtifactDir(f), {"art", "art/lib", "art/include", "art/bin"})
        f2 == CopyAll(f1, CollectFrom(f1, "build/lib", "lib"), "art/lib")
        f3 == CopyIncludeTree(f2)
        f4 == CopyAll(f3, CollectFrom(f3, "build/bin", "exe"), "art/bin")
        dats == CollectAll(f4, data_paths, "dat", 1)
        f5 == IF c.embed_data THEN f4
              ELSE CopyAll(MakeDirs(f4, {"art/data"}), dats, "art/data")
        w == IF ~c.embed_data /\ dats = << >> THEN {"data"} ELSE {}
    IN  IF io = "copy"
        THEN [ret |-> "raise", fault |-> TRUE, diag |-> "none", warnings |-> {},
              fs |-> f1, manifest |-> NoManifest, archive |-> a]
        ELSE IF io = "zip"
        THEN [ret |-> "raise", fault |-> TRUE, diag |-> "none", warnings |-> w,
              fs |-> f5, manifest |-> BuildInfo(c), archive |-> BrokenArchive]
        ELSE [ret |-> "true", fault |-> FALSE, diag |-> "none", warnings |-> w,
              fs |-> f5, manifest |-> BuildInfo(c),
              archive |-> WriteArchive(f5, BuildInfo(c))]

package_artifacts(f, m, a, c, io) ==
    IF c.strategy = "native"
    THEN package_artifacts_native(f, m, a, c, io)
    ELSE package_artifacts_msys(f, m, a, c, io)

-----------------------------------------------------------------------------
(* verify_build *)

(* The checks both verify_build share, on the directories each inspects.    *)
(* io = "raise": a stat() of a library file fails.                          *)
VerifyChecks(f, lib_dir, include_dir, io, warnings) ==
    IF ~PathExists(f, lib_dir)
    THEN [ret |-> "false", fault |-> FALSE, diag |-> "library_dir", warnings |-> {}]
    ELSE IF Glob(f, lib_dir, "lib") = {}
    THEN [ret |-> "false", fault |-> FALSE, diag |-> "libraries", warnings |-> {}]
    ELSE IF io = "raise"
    THEN [ret |-> "raise", fault |-> TRUE, diag |-> "none", warnings |-> {}]
    ELSE IF ~PathExists(f, include_dir)
    THEN [ret |-> "false", fault |-> FALSE, diag |-> "headers", warnings |-> {}]
    ELSE [ret |-> "true", fault |-> FALSE, diag |-> "none", warnings |-> warnings]

(* build_icu_native.py: `if data_dir.exists(): ... else: Warning: No data files found` *)
DataWarningNative(f) ==
    IF PathExists(f, "art/data") /\ Glob(f, "art/data", "dat") = {} THEN {"data"} ELSE {}

(* build_icu.py: f"{lib_prefix}icudt.lib" *)
DataLibName(c) == [base |-> lib_prefix(c) \o "icudt", ext |-> "lib"]

(* build_icu.py: the data library is looked for only with embed_data; the   *)
(* separate-data branch prints a note and checks nothing.                  *)
DataWarningMsys(f, c) ==
    IF c.embed_data
    THEN IF \E x \in f["build/lib"].files : x.name = DataLibName(c)
         THEN {} ELSE {"data"}
    ELSE {}

verify_build(f, c, io) ==
    IF c.strategy = "native"
    THEN VerifyChecks(f, "art/lib", "art/include/unicode", io, DataWarningNative(f))
    ELSE VerifyChecks(f, "build/lib", "build/include/unicode", io, DataWarningMsys(f, c))

-----------------------------------------------------------------------------
(* build(): the step loop *)

(* The loop with the `return False` lost: a failed step is passed over. *)
StepHaltsNever(ret) == FALSE

(* `if not step_func(): ... return False` *)
StepHalts(ret) == ret = "false"

(* An exception leaving step_func() leaves build() and main() too. *)
StepRaises(ret) == ret = "raise"

NoEnv == [net |-> "na", extract |-> "na"]

Obs(name, ret, fault, net_calls, tool_calls, diag, warnings, env) ==
    [name |-> name, ret |-> ret, fault |-> fault, net_calls |-> net_calls,
     tool_calls |-> tool_calls, diag |-> diag, warnings |-> warnings, env |-> env]

NoObs == Obs("none", "none", FALSE, 0, 0, "none", {}, NoEnv)

(* The exit status with build()'s result lost: the process always ends 0. *)
ExitCodeLost(success) == IF success THEN 0 ELSE 0

(* main(): `sys.exit(0 if success else 1)` *)
ExitCode(success) == IF success THEN 0 ELSE 1

(* What build() does once step_func() has returned ret (or raised). *)
BuildLoop(name, ret) ==
    /\ invoked' = Append(invoked, [name |-> name, ret |-> ret])
    /\ IF StepRaises(ret)
       THEN /\ phase' = "done" /\ result' = "crash" /\ exit_code' = 1
            /\ UNCHANGED <<pc, failed_step>>
       ELSE IF StepHalts(ret)
       THEN /\ phase' = "done" /\ result' = "failure" /\ exit_code' = ExitCode(FALSE)
            /\ failed_step' = name
            /\ UNCHANGED pc
       ELSE /\ pc' = pc + 1
            /\ UNCHANGED failed_step
            /\ IF pc = Len(Steps(config))
               THEN phase' = "done" /\ result' = "success" /\ exit_code' = ExitCode(TRUE)
               ELSE UNCHANGED <<phase, result, exit_code>>

(* The loop taking its steps in no order: any step of the list may be next. *)
AtStepInAnyOrder(name) ==
    /\ phase = "running"
    /\ pc \in 1..Len(Steps(config))
    /\ \E k \in 1..Len(Steps(config)) : Steps(config)[k] = name

AtStep(name) ==
    /\ phase = "running"
    /\ pc \in 1..Len(Steps(config))
    /\ Steps(config)[pc] = name

-----------------------------------------------------------------------------
(* Actions *)

Init ==
    /\ config \in Configs
    /\ fs = [p \in Paths |-> NoDir]
    /\ src = NoSrc
    /\ zip = NoZip
    /\ manifest = NoManifest
    /\ archive = NoArchive
    /\ phase = "idle"
    /\ pc = 1
    /\ result = "none"
    /\ failed_step = "none"
    /\ invoked = << >>
    /\ last = NoObs
    /\ runs = 0
    /\ exit_code = -1
    /\ fetch_failed = FALSE
    /\ prev_art = {}

(* main(): a new process builds the config and calls build(). *)
StartRun ==
    /\ phase \in {"idle", "done"}
    /\ runs < MaxRuns
    /\ runs' = runs + 1
    /\ phase' = "running"
    /\ pc' = 1
    /\ result' = "none"
    /\ failed_step' = "none"
    /\ invoked' = << >>
    /\ last' = NoObs
    /\ exit_code' = -1
    /\ UNCHANGED <<config, fs, src, zip, manifest, archive, fetch_failed, prev_art>>

DownloadStep ==
    /\ AtStep("Download ICU source")
    /\ \E net \in {"ok", "refused", "midway"}, extract \in {"ok", "fail"},
          tree \in TreeVariants :
         LET o == download_icu_source(fs, src, zip, net, extract, tree)
         IN  /\ fs' = o.fs
             /\ src' = o.src
             /\ zip' = o.zip
             /\ fetch_failed' = (fetch_failed \/ o.fetch_failed)
             /\ last' = Obs("Download ICU source", o.ret, o.fault, o.net_calls, 0,
                            o.diag, {}, [net |-> net, extract |-> extract])
             /\ BuildLoop("Download ICU source", o.ret)
    /\ UNCHANGED <<config, manifest, archive, runs, prev_art>>

PrepareStep ==
    /\ AtStep("Prepare source")
    /\ \E tool \in ToolOutcomes :
         LET o == prepare_source(fs, src, tool)
         IN  /\ src' = o.src
             /\ last' = Obs("Prepare source", o.ret, o.fault, 0, o.tool_calls,
                            "none", {}, NoEnv)
             /\ BuildLoop("Prepare source", o.ret)
    /\ UNCHANGED <<config, fs, zip, manifest, archive, runs, fetch_failed, prev_art>>

ConfigureStep ==
    /\ AtStep("Configure build")
    /\ \E tool \in ToolOutcomes :
         LET o == configure_build(tool)
         IN  /\ last' = Obs("Configure build", o.ret, o.fault, 0, o.tool_calls,
                            "none", {}, NoEnv)
             /\ BuildLoop("Configure build", o.ret)
    /\ UNCHANGED <<config, fs, src, zip, manifest, archive, runs, fetch_failed, prev_art>>

BuildStep ==
    /\ AtStep("Build ICU")
    /\ \E tool \in ToolOutcomes, data \in DataVariants :
         LET o == build_icu(fs, tool, data)
         IN  /\ fs' = o.fs
             /\ last' = Obs("Build ICU", o.ret, o.fault, 0, o.tool_calls,
                            "none", {}, NoEnv)
             /\ BuildLoop("Build ICU", o.ret)
    /\ UNCHANGED <<config, src, zip, manifest, archive, runs, fetch_failed, prev_art>>

InstallStep ==
    /\ AtStep("Install ICU")
    /\ \E tool \in ToolOutcomes, inst \in InstallVariants :
         LET o == install_icu(fs, tool, inst)
         IN  /\ fs' = o.fs
             /\ last' = Obs("Install ICU", o.ret, o.fault, 0, o.tool_calls,
                            "none", {}, NoEnv)
             /\ BuildLoop("Install ICU", o.ret)
    /\ UNCHANGED <<config, src, zip, manifest, archive, runs, fetch_failed, prev_art>>

VerifySolutionStep ==
    /\ AtStep("Verify Visual Studio solution")
    /\ LET o == verify_visual_studio_solution(fs, src)
       IN  /\ last' = Obs("Verify Visual Studio solution", o.ret, FALSE, 0, 0,
                          "none", {}, NoEnv)
           /\ BuildLoop("Verify Visual Studio solution", o.ret)
    /\ UNCHANGED <<config, fs, src, zip, manifest, archive, runs, fetch_failed, prev_art>>

UpdateToolsetStep ==
    /\ AtStep("Update Visual Studio toolset")
    /\ \E io \in {"ok", "raise"} :
         LET o == update_visual_studio_toolset(fs, src, io)
         IN  /\ src' = o.src
             /\ last' = Obs("Update Visual Studio toolset", o.ret, o.fault, 0, 0,
                            "none", o.warnings, NoEnv)
             /\ BuildLoop("Update Visual Studio toolset", o.ret)
    /\ UNCHANGED <<config, fs, zip, manifest, archive, runs, fetch_failed, prev_art>>

MsbuildStep ==
    /\ AtStep("Build ICU with MSBuild")
    /\ \E tool1 \in ToolOutcomes, tool2 \in ToolOutcomes,
          cand \in CandVariants, data \in DataVariants :
         LET o == build_icu_with_msbuild(fs, tool1, tool2, cand, data)
         IN  /\ fs' = o.fs
             /\ last' = Obs("Build ICU with MSBuild", o.ret, o.fault, 0, o.tool_calls,
                            "none", {}, NoEnv)
             /\ BuildLoop("Build ICU with MSBuild", o.ret)
    /\ UNCHANGED <<config, src, zip, manifest, archive, runs, fetch_failed, prev_art>>

PackageStep ==
    /\ AtStep("Package artifacts")
    /\ \E io \in PackageFaults :
         LET o == package_artifacts(fs, manifest, archive, config, io)
         IN  /\ fs' = o.fs
             /\ manifest' = o.manifest
             /\ archive' = o.archive
             /\ prev_art' = ArtifactFiles(fs)
             /\ last' = Obs("Package artifacts", o.ret, o.fault, 0, 0,
                            o.diag, o.warnings, NoEnv)
             /\ BuildLoop("Package artifacts", o.ret)
    /\ UNCHANGED <<config, src, zip, runs, fetch_failed>>

VerifyStep ==
    /\ AtStep("Verify build")
    /\ \E io \in {"ok", "raise"} :
         LET o == verify_build(fs, config, io)
         IN  /\ last' = Obs("Verify build", o.ret, o.fault, 0, 0,
                            o.diag, o.warnings, NoEnv)
             /\ BuildLoop("Verify build", o.ret)
    /\ UNCHANGED <<config, fs, src, zip, manifest, archive, runs, fetch_failed, prev_art>>

Next ==
    \/ StartRun
    \/ DownloadStep
    \/ PrepareStep
    \/ ConfigureStep
    \/ BuildStep
    \/ InstallStep
    \/ VerifySolutionStep
    \/ UpdateToolsetStep
    \/ MsbuildStep
    \/ PackageStep
    \/ VerifyStep

Spec == Init /\ [][Next]_vars

-----------------------------------------------------------------------------
(* Properties *)

Last(seq) == seq[Len(seq)]

(* The step that has just been taken is `name` (in an action formula). *)
Took(name) == AtStep(name) /\ last'.name = name

(* C1: in both strategies' build() loops, once a step has returned failure *)
(* no later step is invoked and build() returns failure.                   *)
C1_FailFast ==
    \A k \in 1..Len(invoked) :
        invoked[k].ret = "false" =>
            /\ k = Len(invoked)
            /\ phase = "done"
            /\ result = "failure"

C1_Witness ==
    /\ result = "failure"
    /\ invoked # << >>
    /\ Last(invoked).ret = "false"
    /\ Len(invoked) < Len(Steps(config))
    /\ Len(invoked) > 1

(* C2: a fault raised inside a step's action becomes an ordinary failure   *)
(* of that step (build() returns failure naming it) and never leaves       *)
(* build() uncaught.                                                       *)
C2_FaultIsStepFailure ==
    /\ result # "crash"
    /\ last.fault => (last.ret = "false" /\ result = "failure" /\ failed_step = last.name)

(* C3: after a download step that failed because the fetch failed, a       *)
(* download step of a later run in which the fetch and the extraction of   *)
(* the archive would succeed returns success.                              *)
C3_FetchFailureRecoverable ==
    [][ ( /\ Took("Download ICU source")
          /\ fetch_failed
          /\ last'.env = [net |-> "ok", extract |-> "ok"] )
        => last'.ret = "true" ]_vars

(* C4: with the source directory present, download_icu_source makes no     *)
(* network call, changes nothing in the workspace and returns success,     *)
(* each time it is invoked.                                                *)
C4_SkipWhenSourcePresent ==
    [][ (Took("Download ICU source") /\ PathExists(fs, "source"))
        => /\ last'.ret = "true"
           /\ last'.net_calls = 0
           /\ <<fs, src, zip, manifest, archive>>' = <<fs, src, zip, manifest, archive>> ]_vars

C4_Witness ==
    /\ runs = MaxRuns
    /\ last.name = "Download ICU source"
    /\ last.diag = "already available"
    /\ last.ret = "true"
    /\ last.net_calls = 0
    /\ zip.state = "complete"

(* C5: the prepare step of a rerun, after a run in which source            *)
(* preparation completed, returns success without invoking the toolchain.  *)
C5_PrepareSkipsWhenDone ==
    [][ (Took("Prepare source") /\ src.prepared)
        => (last'.ret = "true" /\ last'.tool_calls = 0) ]_vars

(* The library files the package step of the strategy has to package. *)
LibraryInputs ==
    IF config.strategy = "native"
    THEN UNION { Glob(fs, possible_paths[i], "lib") : i \in DOMAIN possible_paths }
    ELSE Glob(fs, "build/lib", "lib")

ArtifactDirs(f) == [p \in ArtifactPaths |-> f[p]]

(* C6: in both strategies, with no library file to package, the package    *)
(* step returns failure, writes no archive and leaves the canonical        *)
(* directory as it was (stated for the calls no I/O fault interrupts).     *)
C6_NoLibrariesNoArchive ==
    [][ (Took("Package artifacts") /\ LibraryInputs = {} /\ ~last'.fault)
        => /\ last'.ret = "false"
           /\ archive' = archive
           /\ manifest' = manifest
           /\ ArtifactDirs(fs') = ArtifactDirs(fs) ]_vars

(* What the package step of the strategy takes its files from, as the      *)
(* files of the canonical directory they are to become.                    *)
InputsOf(paths, ext, rel) ==
    UNION { { [path |-> rel, name |-> x.name, body |-> x.body] : x \in Glob(fs, paths[i], ext) }
            : i \in DOMAIN paths }

PackageInputs ==
    IF config.strategy = "native"
    THEN InputsOf(possible_paths, "lib", "lib") \cup InputsOf(possible_paths, "exe", "bin")
            \cup InputsOf(data_paths, "dat", "data")
            \cup InputsOf(header_paths, "h", "include/unicode")
    ELSE InputsOf(<< "build/lib" >>, "lib", "lib") \cup InputsOf(<< "build/bin" >>, "exe", "bin")
            \cup { [path |-> "include", name |-> x.name, body |-> x.body]
                    : x \in fs["build/include"].files }
            \cup { [path |-> "include/unicode", name |-> x.name, body |-> x.body]
                    : x \in fs["build/include/unicode"].files }
            \cup (IF config.embed_data THEN {} ELSE InputsOf(data_paths, "dat", "data"))

Entry(x) == [path |-> x.path, name |-> x.name]

(* C7: after a successful package step the canonical directory and the     *)
(* archive hold exactly the files of this run's inputs: every file is one  *)
(* of the inputs, every input's name is there, and nothing else (nothing   *)
(* of an earlier package step) remains.                                    *)
C7_CleanOverwrite ==
    (last.name = "Package artifacts" /\ last.ret = "true") =>
        /\ ArtifactFiles(fs) \subseteq PackageInputs
        /\ { Entry(x) : x \in ArtifactFiles(fs) } = { Entry(x) : x \in PackageInputs }
        /\ archive.exists /\ archive.complete
        /\ archive.files = ArtifactFiles(fs)

(* A second successful package step, whose inputs lack a file the first packaged. *)
C7_Witness ==
    /\ last.name = "Package artifacts"
    /\ last.ret = "true"
    /\ runs = 2
    /\ \E x \in prev_art : Entry(x) \notin { Entry(y) : y \in PackageInputs }
    /\ \E x \in ArtifactFiles(fs) : Entry(x) \notin { Entry(y) : y \in prev_art }

(* The library directory verify_build inspects. *)
InspectedLibDir == IF config.strategy = "native" THEN "art/lib" ELSE "build/lib"

(* The header directory verify_build inspects. *)
InspectedHeaderDir ==
    IF config.strategy = "native" THEN "art/include/unicode" ELSE "build/include/unicode"

(* C8: verify_build returns failure whenever the header directory it       *)
(* inspects holds no header file, whatever the library and data state, and *)
(* names the headers as what is missing (the library check comes first in  *)
(* the code, so the naming is asked only where a library file is present). *)
C8_ZeroHeadersFail ==
    ( /\ last.name = "Verify build"
      /\ ~last.fault
      /\ Glob(fs, InspectedHeaderDir, "h") = {} )
    => /\ last.ret = "false"
       /\ Glob(fs, InspectedLibDir, "lib") # {} => last.diag = "headers"

(* The data artifact the configuration expects is not there: the prefixed  *)
(* data library with embedded data, a .dat file of the package otherwise.  *)
DataArtifactAbsent ==
    IF config.embed_data
    THEN ~(\E x \in fs[InspectedLibDir].files : x.name = [base |-> "sicudt", ext |-> "lib"])
    ELSE Glob(fs, "art/data", "dat") = {}

(* C9: with a library file and the header directory present, verify_build  *)
(* returns success when the expected data artifact is absent and reports   *)
(* the absence as a warning.                                               *)
C9_MissingDataIsWarning ==
    ( /\ last.name = "Verify build"
      /\ ~last.fault
      /\ Glob(fs, InspectedLibDir, "lib") # {}
      /\ PathExists(fs, InspectedHeaderDir)
      /\ DataArtifactAbsent )
    => (last.ret = "true" /\ "data" \in last.warnings)

NoCandidateExists ==
    /\ \A i \in DOMAIN possible_paths : ~PathExists(fs, possible_paths[i])
    /\ \A i \in DOMAIN data_paths : ~PathExists(fs, data_paths[i])

EntriesFrom(seq, ext) ==
    \A i \in DOMAIN seq :
        /\ PathExists(fs, seq[i].path)
        /\ seq[i].name.ext = ext
        /\ \E x \in fs[seq[i].path].files : x.name = seq[i].name

(* C10: locate_build_artifacts takes entries only from candidate paths     *)
(* that exist; when none exists its three collections are empty, and the   *)
(* package step that called it returns its failure instead of raising.     *)
C10_LocateSkipsMissing ==
    LET a == locate_build_artifacts(fs)
    IN  /\ EntriesFrom(a.lib_files, "lib")
        /\ EntriesFrom(a.exe_files, "exe")
        /\ EntriesFrom(a.dat_files, "dat")
        /\ NoCandidateExists =>
              /\ a = [lib_files |-> << >>, exe_files |-> << >>, dat_files |-> << >>]
              /\ (config.strategy = "native" /\ last.name = "Package artifacts")
                    => last.ret = "false"

(* The MSBuild strategy's package step has run with no candidate path there. *)
C10_Witness ==
    /\ config.strategy = "native"
    /\ last.name = "Package artifacts"
    /\ NoCandidateExists
    /\ last.ret = "false"
    /\ last.diag = "libraries"

(* The files with extension ext under the candidate paths, each with its path. *)
Located(paths, ext) ==
    UNION { { [path |-> paths[k], name |-> x.name] : x \in Glob(fs, paths[k], ext) }
            : k \in DOMAIN paths }

InListOrder(seq, paths) ==
    \A i, j \in DOMAIN seq :
        i < j => IndexOf(paths, seq[i].path) <= IndexOf(paths, seq[j].path)

(* Every file of every candidate path is one entry of seq, and seq holds   *)
(* nothing else: a name found under two paths is two entries.              *)
OneEntryPerFile(seq, paths, ext) ==
    /\ Range(seq) = Located(paths, ext)
    /\ Len(seq) = Cardinality(Located(paths, ext))

(* C11: locate_build_artifacts visits the candidate paths once each, in    *)
(* list order, and does not de-duplicate: each collection holds one entry  *)
(* for every file of every existing candidate path, a file name found      *)
(* under two paths twice, and the entries are ordered by candidate path.   *)
C11_LocateKeepsDuplicates ==
    LET a == locate_build_artifacts(fs)
    IN  /\ OneEntryPerFile(a.lib_files, possible_paths, "lib")
        /\ OneEntryPerFile(a.exe_files, possible_paths, "exe")
        /\ OneEntryPerFile(a.dat_files, data_paths, "dat")
        /\ InListOrder(a.lib_files, possible_paths)
        /\ InListOrder(a.exe_files, possible_paths)
        /\ InListOrder(a.dat_files, data_paths)

(* The MSBuild strategy's package step has located one library name under  *)
(* two candidate paths, and both entries are in the collection.            *)
C11_Witness ==
    /\ config.strategy = "native"
    /\ last.name = "Package artifacts"
    /\ LET libs == locate_build_artifacts(fs).lib_files
       IN  \E i, j \in DOMAIN libs :
              /\ i < j
              /\ libs[i].name = libs[j].name
              /\ libs[i].path # libs[j].path
              /\ IndexOf(possible_paths, libs[i].path) < IndexOf(possible_paths, libs[j].path)

(* The files of one kind the package step locates: each with its name and  *)
(* content, from every candidate path of the kind.                         *)
LocatedFiles(paths, ext) ==
    UNION { { [name |-> x.name, body |-> x.body] : x \in Glob(fs, paths[k], ext) }
            : k \in DOMAIN paths }

(* The file is in the directory dst, under its name and with its content.  *)
HeldIn(dst, e) == \E x \in fs[dst].files : x.name = e.name /\ x.body = e.body

(* C12: after a successful package step every located file is in the       *)
(* canonical subdirectory of its kind (lib/, bin/, data/) under its name   *)
(* and with its content, also when two located files from different        *)
(* candidate paths share a name.                                           *)
C12_EveryLocatedFilePackaged ==
    (last.name = "Package artifacts" /\ last.ret = "true") =>
        IF config.strategy = "native"
        THEN /\ \A e \in LocatedFiles(possible_paths, "lib") : HeldIn("art/lib", e)
             /\ \A e \in LocatedFiles(possible_paths, "exe") : HeldIn("art/bin", e)
             /\ \A e \in LocatedFiles(data_paths, "dat") : HeldIn("art/data", e)
        ELSE /\ \A e \in LocatedFiles(<< "build/lib" >>, "lib") : HeldIn("art/lib", e)
             /\ \A e \in LocatedFiles(<< "build/bin" >>, "exe") : HeldIn("art/bin", e)
             /\ ~config.embed_data =>
                   \A e \in LocatedFiles(data_paths, "dat") : HeldIn("art/data", e)

(* Every step of the strategy's sequence was invoked and returned success. *)
AllStepsSucceeded ==
    /\ Len(invoked) = Len(Steps(config))
    /\ \A k \in DOMAIN invoked :
          invoked[k].name = Steps(config)[k] /\ invoked[k].ret = "true"

(* C13: build() returns success if and only if every step of the          *)
(* strategy's sequence was invoked and returned success; the process exit  *)
(* code is 0 exactly then, and non-zero when a step failed.                *)
C13_SuccessIffAllSteps ==
    /\ phase = "done" =>
          /\ (result = "success") <=> AllStepsSucceeded
          /\ (exit_code = 0) <=> AllStepsSucceeded
          /\ (\E k \in DOMAIN invoked : invoked[k].ret # "true") => exit_code > 0
    /\ phase = "running" => (result = "none" /\ exit_code < 0)

(* A run has ended with every step of its sequence successful.             *)
C13_Witness ==
    /\ phase = "done"
    /\ AllStepsSucceeded
    /\ result = "success"
    /\ exit_code = 0

(* The directories of the canonical tree, relative to its root. *)
RelativePaths == { RelativeTo(p) : p \in ArtifactPaths }

(* C14: when a run ends in success the workspace holds the canonical       *)
(* directory and a finished archive; the directory has a library file      *)
(* under lib/, the header directory include/unicode, a bin/ directory and  *)
(* the manifest recording the configured architecture and flavour; the     *)
(* archive holds exactly the regular files of the directory (the manifest  *)
(* among them), under their paths relative to its root.                    *)
C14_SuccessLeavesPackage ==
    result = "success" =>
        /\ PathExists(fs, "art")
        /\ Glob(fs, "art/lib", "lib") # {}
        /\ PathExists(fs, "art/include/unicode")
        /\ PathExists(fs, "art/bin")
        /\ manifest.exists
        /\ manifest.arch = config.arch
        /\ manifest.build_type = config.build_type
        /\ archive.exists /\ archive.complete
        /\ archive.files = ArtifactFiles(fs)
        /\ archive.manifest = manifest
        /\ \A x \in archive.files : x.path \in RelativePaths

(* A run of the Debug x86 configuration has ended in success, with files   *)
(* of more than one subdirectory in the archive.                           *)
C14_Witness ==
    /\ result = "success"
    /\ config.arch = "x86"
    /\ manifest.build_type = "Debug"
    /\ \E x, y \in archive.files : x.path = "lib" /\ y.path = "include/unicode"

(* C15: in both strategies the result of verify_build is determined by the *)
(* packaged directory and the configuration alone: of two filesystem       *)
(* states with the same packaged directory (here a state and its           *)
(* successor) verify_build returns the same value, and a verify step that  *)
(* returned success has a library file under the packaged lib/.            *)
C15_VerifyReadsPackageOnly ==
    [][ /\ (ArtifactDirs(fs') = ArtifactDirs(fs) /\ manifest' = manifest)
            => verify_build(fs', config, "ok").ret = verify_build(fs, config, "ok").ret
        /\ (last'.name = "Verify build" /\ last'.ret = "true")
            => Glob(fs', "art/lib", "lib") # {} ]_vars

C17_DownloadSuccessLeavesSource ==
    (last.name = "Download ICU source" /\ last.ret = "true") =>
        (PathExists(fs, "source") /\ SourceAvailable(fs))

(* C18: an archive is in the workspace after a run only if the run ended   *)
(* in success: a run that ends in failure, at verification or earlier,     *)
(* has written none and has left none of an earlier run in place.          *)
C18_ArchiveOnlyAfterSuccess ==
    (phase = "done" /\ result = "failure") => ~archive.exists

(* C18, as the code has it: only a package step that does not return       *)
(* failure changes the archive; the step at which a run fails leaves the   *)
(* archive as it found it, and a run that fails at verification leaves in  *)
(* place the finished archive its package step wrote.                      *)
C18_ArchiveStaysAfterFailure ==
    [][ /\ archive' # archive =>
              (Took("Package artifacts") /\ last'.ret # "false")
        /\ (phase = "running" /\ result' = "failure") => archive' = archive
        /\ (phase = "running" /\ failed_step' = "Verify build") =>
              (archive'.exists /\ archive'.complete
                /\ archive'.files = ArtifactFiles(fs')) ]_vars

(* A run has failed at verification with its libraries packaged: the       *)
(* archive of its package step is there.                                   *)
C18_Witness ==
    /\ result = "failure"
    /\ failed_step = "Verify build"
    /\ archive.exists
    /\ \E x \in archive.files : x.path = "lib"

(* C19: in the MSBuild strategy verify_build, run directly after a package *)
(* step that returned success, finds its library check and its header      *)
(* check satisfied, whatever headers the source tree holds: it never       *)
(* returns failure, and returns success unless an I/O fault interrupts it. *)
C19_NativeVerifyCannotFail ==
    (config.strategy = "native" /\ last.name = "Verify build") =>
        /\ Len(invoked) > 1
        /\ invoked[Len(invoked) - 1] = [name |-> "Package artifacts", ret |-> "true"]
        /\ last.ret # "false"
        /\ last.diag = "none"
        /\ ~last.fault => last.ret = "true"
        /\ Glob(fs, "art/lib", "lib") # {}
        /\ PathExists(fs, "art/include/unicode")

(* verify_build has returned success on a package made from a source tree  *)
(* without a header file.                                                  *)
C19_Witness ==
    /\ config.strategy = "native"
    /\ last.name = "Verify build"
    /\ last.ret = "true"
    /\ \A i \in DOMAIN header_paths : Glob(fs, header_paths[i], "h") = {}
    /\ Glob(fs, "art/include/unicode", "h") = {}

====
